---- MODULE Spec2Model ----
(***************************************************************************)
(* The jewellery backend as a state machine: the relational store (one     *)
(* variable per table), and the HTTP requests in flight.  A request runs   *)
(* in its own SQLAlchemy session (database.py get_session): it reads the   *)
(* committed store, keeps its writes pending, and only session.commit()    *)
(* makes them part of the store; closing the session without a commit      *)
(* discards them.  A handler is one step per commit point or per loop      *)
(* iteration, so that requests can be interleaved; under Spec one request  *)
(* runs at a time.                                                         *)
(***************************************************************************)
EXTENDS Integers, FiniteSets, Sequences, TLC

VARIABLES
    user,       \* table user:      rows [id, email, hashed_password, is_admin, is_active]
    product,    \* table product:   rows [id, price, original_price, rating,
                \*                        review_count, in_stock, stock_quantity]
    cartitem,   \* table cartitem:  rows [id, user_id, product_id, quantity]
    order,      \* table order:     rows [id, user_id, status, total]
    orderitem,  \* table orderitem: rows [id, order_id, product_id, quantity, price]
    review,     \* table review:    rows [id, user_id, product_id, rating]
    clock,      \* the time, in seconds
    tokens,     \* the bearer tokens issued so far, as their holders keep them
    req,        \* per request slot: the request, its session, and its response
    pre         \* per request slot: the committed store when the request began

vars == <<user, product, cartitem, order, orderitem, review, clock, tokens, req, pre>>

----------------------------------------------------------------------------
(* Bounds of the model *)

MaxStock == 2          \* stock quantities and request quantities are 0..MaxStock
MaxCartItemId == 2     \* cart rows are only inserted while their id stays below this
MaxOrderId == 1        \* requests are only issued while the next order id stays below this
MaxReviewId == 2       \* reviews are only posted while their id stays below this
MaxProductId == 3      \* products are only created while their id stays below this
MaxUserId == 4         \* accounts are only registered while their id stays below this
MaxTokens == 2         \* tokens are only issued while fewer than this are held
MaxClock == 5          \* the time runs to this many ticks
TicksPerSecond == 2    \* the ticks of the clock in a second
TokenLifetime == 1     \* ACCESS_TOKEN_EXPIRE_MINUTES, scaled: the seconds a token lasts

ProductIds == {1, 2}
Slots == {1, 2}
SeqSlots == {1}

\* the seeded catalog: prices of the seeded products (scripts/seed.py, scaled)
SeedPrice(p) == IF p = 1 THEN 100 ELSE 250

\* the seeded accounts (scripts/seed.py)
ADMIN_EMAIL == "admin@aureliajewels.com"
DEMO_EMAIL == "demo@aureliajewels.com"
ADMIN_PASSWORD == "Admin@1234"
DEMO_PASSWORD == "Demo@1234"

\* a nullable column is a set of at most one value: NULL (a JSON null in a
\* request body) is the empty set
Null == {}

RECURSIVE GCD(_, _)
GCD(a, b) == IF b = 0 THEN a ELSE GCD(b, a % b)

\* a float column that holds a quotient of integers: total / count, kept exact
\* as the fraction in lowest terms (count > 0)
Quotient(total, count) ==
    LET g == GCD(IF total < 0 THEN -total ELSE total, count)
    IN [n |-> total \div g, d |-> count \div g]

\* the float of an integer: 0.0, 5.0
Float(i) == [n |-> i, d |-> 1]

\* get_password_hash (passlib bcrypt_sha256): not the password, and verifiable
\* only against the same password
get_password_hash(password) == <<"bcrypt_sha256", password>>

verify_password(plain, hashed) == hashed = <<"bcrypt_sha256", plain>>

----------------------------------------------------------------------------
(* Rows and tables *)

None == [id |-> 0]

HasRow(table, id) == \E row \in table : row.id = id

\* session.get(Model, id): the row with that primary key, or None
Get(table, id) ==
    IF HasRow(table, id) THEN CHOOSE row \in table : row.id = id ELSE None

RECURSIVE MaxId(_)
MaxId(table) ==
    IF table = {} THEN 0
    ELSE LET row == CHOOSE x \in table : TRUE
             rest == MaxId(table \ {row})
         IN IF row.id > rest THEN row.id ELSE rest

\* variant: the key is the number of rows plus one
NextId_Count(table) == Cardinality(table) + 1

\* the primary key an INSERT gets (SQLite rowid: largest id in the table + 1)
NextId(table) == MaxId(table) + 1

\* select(CartItem).where(CartItem.user_id == user_id)
CartOf(table, user_id) == {ci \in table : ci.user_id = user_id}

NoSnapshot ==
    [user |-> {}, product |-> {}, cartitem |-> {}, order |-> {}, orderitem |-> {},
     review |-> {}]

Snapshot ==
    [user |-> user, product |-> product, cartitem |-> cartitem, order |-> order,
     orderitem |-> orderitem, review |-> review]

----------------------------------------------------------------------------
(* Requests *)

\* a request slot: the request's arguments, the handler's position and locals
\* (new_items: the order lines the checkout loop has built, lines: the ids of
\* the cart rows it built them from, reviews: the rows of the aggregate's
\* select), the session's objects (loaded, deleted), and the response once
\* pc = "done"
Blank ==
    [op |-> "none", pc |-> "idle", user_id |-> 0, product_id |-> 0,
     item_id |-> 0, quantity |-> 0, review_id |-> 0, rating |-> 0, body |-> <<>>,
     email |-> "", password |-> "", token |-> None, now |-> 0, status |-> 0,
     detail |-> "",
     cart_items |-> {}, order_id |-> 0, total |-> 0, prod |-> None,
     existing |-> None, loaded |-> {}, deleted |-> {}, new_items |-> <<>>,
     lines |-> {}, reviews |-> {}]

Free(r) == req[r].pc = "idle"

\* the response of a finished handler; the session is closed with it
Respond(rq, status, detail) ==
    [rq EXCEPT !.pc = "done", !.status = status, !.detail = detail,
               !.cart_items = {}, !.prod = None, !.existing = None,
               !.loaded = {}, !.deleted = {}, !.reviews = {}]

Request(op, user_id, product_id, item_id, quantity) ==
    [Blank EXCEPT !.op = op, !.pc = "run", !.user_id = user_id,
                  !.product_id = product_id, !.item_id = item_id,
                  !.quantity = quantity]

\* CartItemBase.quantity: Field(default=1, ge=1); a body that fails this never
\* reaches the handler (FastAPI answers 422)
ValidCartItemCreate(quantity) == quantity >= 1

\* variant: every caller passes for an admin
IsAdmin_Anyone(user_id) == TRUE

\* require_admin
IsAdmin(user_id) == Get(user, user_id).is_admin

ActiveUsers == {u.id : u \in {x \in user : x.is_active}}

----------------------------------------------------------------------------
Init ==
    /\ user = {[id |-> 1, email |-> ADMIN_EMAIL,
                 hashed_password |-> get_password_hash(ADMIN_PASSWORD),
                 is_admin |-> TRUE, is_active |-> TRUE],
               [id |-> 2, email |-> DEMO_EMAIL,
                 hashed_password |-> get_password_hash(DEMO_PASSWORD),
                 is_admin |-> FALSE, is_active |-> TRUE]}
    /\ product = {[id |-> p, price |-> SeedPrice(p), original_price |-> Null,
                   rating |-> Float(0), review_count |-> 0, in_stock |-> TRUE,
                   stock_quantity |-> MaxStock] : p \in ProductIds}
    /\ cartitem = {}
    /\ order = {}
    /\ orderitem = {}
    /\ review = {}
    /\ clock = 0
    /\ tokens = {}
    /\ req = [r \in Slots |-> Blank]
    /\ pre = [r \in Slots |-> NoSnapshot]

tables == <<user, product, cartitem, order, orderitem, review>>

\* the time and the tokens in the hands of the clients
auth == <<clock, tokens>>

IsNone(row) == row.id = 0

\* a request of an authenticated, active user arrives
Begin(r, rq) ==
    /\ Free(r)
    /\ rq.user_id \in ActiveUsers
    /\ pre' = [pre EXCEPT ![r] = Snapshot]

Finish(r, rq, status, detail) == req' = [req EXCEPT ![r] = Respond(rq, status, detail)]

----------------------------------------------------------------------------
(* routers_cart.py *)

\* variant: the lookup of the existing row finds nothing
ExistingRows_None(user_id, product_id) == {}

\* the caller's rows for a product: select(CartItem).where(user_id ==, product_id ==)
ExistingRows(user_id, product_id) ==
    {ci \in cartitem : ci.user_id = user_id /\ ci.product_id = product_id}

\* variant: the new quantity replaces the row's instead of adding to it
MergedQuantity_Overwrite(existing, quantity) == quantity

\* new_qty = existing.quantity + item_in.quantity
MergedQuantity(existing, quantity) == existing.quantity + quantity

\* the stock checks of the cart handlers: prod.stock_quantity < quantity
StockShort(prod, quantity) == prod.stock_quantity < quantity

\* UPDATE cartitem SET quantity = ... WHERE id = ...
SetQuantity(table, id, quantity) ==
    {IF ci.id = id THEN [ci EXCEPT !.quantity = quantity] ELSE ci : ci \in table}

\* DELETE FROM cartitem WHERE id IN ...
DeleteRows(table, ids) == {row \in table : row.id \notin ids}

\* variant: the owner of the row is not compared with the caller
OwnedBy_AnyUser(existing, user_id) == ~IsNone(existing)

\* the owner check of update_cart_item and delete_cart_item
OwnedBy(existing, user_id) == ~IsNone(existing) /\ existing.user_id = user_id

\* add_to_cart, up to the lookup of the caller's existing row
AddToCartRead(r, u, p, q) ==
    LET rq == Request("add_to_cart", u, p, 0, q)
        prod == Get(product, p)
        mine == ExistingRows(u, p)
    IN /\ Begin(r, rq)
       /\ IF ~ValidCartItemCreate(q) THEN Finish(r, rq, 422, "validation error")
          ELSE IF IsNone(prod) THEN Finish(r, rq, 404, "Product not found")
          ELSE IF ~prod.in_stock THEN Finish(r, rq, 400, "Product is out of stock")
          ELSE IF StockShort(prod, q) THEN Finish(r, rq, 400, "insufficient stock")
          ELSE /\ mine # {} \/ NextId(cartitem) <= MaxCartItemId
               \* .first(): one of the matching rows, or None
               /\ \E ex \in (IF mine = {} THEN {None} ELSE mine) :
                    req' = [req EXCEPT ![r] =
                              [rq EXCEPT !.pc = "write", !.prod = prod, !.existing = ex]]
       /\ UNCHANGED <<tables, auth>>

\* add_to_cart, from "if existing:" to the commit (the UPDATE of a row that
\* was deleted meanwhile matches nothing: StaleDataError, the request fails)
AddToCartWrite(r) ==
    LET rq == req[r]
        ex == rq.existing
        new_qty == MergedQuantity(ex, rq.quantity)
    IN /\ rq.op = "add_to_cart" /\ rq.pc = "write"
       /\ IF ~IsNone(ex)
          THEN IF StockShort(rq.prod, new_qty)
               THEN /\ Finish(r, rq, 400, "insufficient stock")
                    /\ UNCHANGED cartitem
               ELSE IF ~HasRow(cartitem, ex.id)
               THEN /\ Finish(r, rq, 500, "Internal Server Error")
                    /\ UNCHANGED cartitem
               ELSE /\ cartitem' = SetQuantity(cartitem, ex.id, new_qty)
                    /\ Finish(r, [rq EXCEPT !.item_id = ex.id], 201, "created")
          ELSE /\ NextId(cartitem) <= MaxCartItemId
               /\ cartitem' = cartitem \cup
                     {[id |-> NextId(cartitem), user_id |-> rq.user_id,
                       product_id |-> rq.product_id, quantity |-> rq.quantity]}
               /\ Finish(r, [rq EXCEPT !.item_id = NextId(cartitem)], 201, "created")
       /\ UNCHANGED <<user, product, order, orderitem, review, auth, pre>>

\* update_cart_item
UpdateCartItem(r, u, item_id, q) ==
    LET rq == Request("update_cart_item", u, 0, item_id, q)
        existing == Get(cartitem, item_id)
        prod == Get(product, existing.product_id)
    IN /\ Begin(r, rq)
       /\ IF ~ValidCartItemCreate(q)
          THEN Finish(r, rq, 422, "validation error") /\ UNCHANGED cartitem
          ELSE IF ~OwnedBy(existing, u)
          THEN Finish(r, rq, 404, "Cart item not found") /\ UNCHANGED cartitem
          ELSE IF q <= 0
          THEN /\ cartitem' = DeleteRows(cartitem, {item_id})
               /\ Finish(r, rq, 204, "removed")
          ELSE IF IsNone(prod)
          THEN Finish(r, rq, 404, "Product associated with cart item not found")
               /\ UNCHANGED cartitem
          ELSE IF StockShort(prod, q)
          THEN Finish(r, rq, 400, "insufficient stock") /\ UNCHANGED cartitem
          ELSE /\ cartitem' = SetQuantity(cartitem, item_id, q)
               /\ Finish(r, rq, 200, "ok")
       /\ UNCHANGED <<user, product, order, orderitem, review, auth>>

\* delete_cart_item
DeleteCartItem(r, u, item_id) ==
    LET rq == Request("delete_cart_item", u, 0, item_id, 0)
        existing == Get(cartitem, item_id)
    IN /\ Begin(r, rq)
       /\ IF ~OwnedBy(existing, u)
          THEN Finish(r, rq, 404, "Cart item not found") /\ UNCHANGED cartitem
          ELSE /\ cartitem' = DeleteRows(cartitem, {item_id})
               /\ Finish(r, rq, 204, "")
       /\ UNCHANGED <<user, product, order, orderitem, review, auth>>

\* clear_cart
ClearCart(r, u) ==
    LET rq == Request("clear_cart", u, 0, 0, 0)
        items == CartOf(cartitem, u)
    IN /\ Begin(r, rq)
       /\ cartitem' = DeleteRows(cartitem, {ci.id : ci \in items})
       /\ Finish(r, rq, 204, "")
       /\ UNCHANGED <<user, product, order, orderitem, review, auth>>

----------------------------------------------------------------------------
(* routers_orders.py *)

\* session.get(Product, id) inside a session: the object the session already
\* holds (with the session's own changes), else the committed row, else None
SessionGet(rq, product_id) ==
    IF HasRow(rq.loaded, product_id) THEN Get(rq.loaded, product_id)
    ELSE Get(product, product_id)

\* variant: one unit is deducted whatever the quantity of the line
DeductStock_Unit(prod, quantity) ==
    [prod EXCEPT !.stock_quantity = @ - 1,
                 !.in_stock = IF prod.stock_quantity - 1 = 0 THEN FALSE ELSE @]

\* variant: in_stock is not cleared when the stock reaches zero
DeductStock_KeepsInStock(prod, quantity) ==
    [prod EXCEPT !.stock_quantity = @ - quantity]

\* prod.stock_quantity -= ci.quantity; if prod.stock_quantity == 0: prod.in_stock = False
DeductStock(prod, quantity) ==
    LET left == prod.stock_quantity - quantity
    IN [prod EXCEPT !.stock_quantity = left,
                    !.in_stock = IF left = 0 THEN FALSE ELSE @]

\* OrderItem(order_id=order.id, product_id=prod.id, quantity=ci.quantity, price=prod.price)
NewOrderItem(order_id, prod, ci) ==
    [order_id |-> order_id, product_id |-> prod.id, quantity |-> ci.quantity,
     price |-> prod.price]

\* variant: the line's quantity is left out of the total
LineTotal_NoQuantity(prod, ci) == prod.price

\* total += prod.price * ci.quantity
LineTotal(prod, ci) == prod.price * ci.quantity

\* variant: the empty cart is not refused
EmptyCart_Never(cart_items) == FALSE

\* if not cart_items
EmptyCart(cart_items) == cart_items = {}

\* variant: the dangling cart row is skipped but not deleted
SkipMissing_KeepsRow(rq, ci) == [rq EXCEPT !.cart_items = @ \ {ci}]

\* the product is gone: session.delete(ci); continue
SkipMissing(rq, ci) ==
    [rq EXCEPT !.cart_items = @ \ {ci}, !.deleted = @ \cup {ci.id}]

\* the committed store after session.commit() of the checkout's pending writes:
\* the UPDATEs of the loaded products, the DELETEs of the cart rows, the INSERTs
\* of the order items and the UPDATE of the order's total
Commit(rq) ==
    [product |->
        {IF HasRow(rq.loaded, p.id)
         THEN [p EXCEPT !.stock_quantity = Get(rq.loaded, p.id).stock_quantity,
                        !.in_stock = Get(rq.loaded, p.id).in_stock]
         ELSE p : p \in product},
     cartitem |-> DeleteRows(cartitem, rq.deleted),
     order |->
        {IF o.id = rq.order_id THEN [o EXCEPT !.total = rq.total] ELSE o : o \in order},
     orderitem |-> orderitem \cup
        {[id |-> MaxId(orderitem) + i, order_id |-> rq.new_items[i].order_id,
          product_id |-> rq.new_items[i].product_id,
          quantity |-> rq.new_items[i].quantity,
          price |-> rq.new_items[i].price] : i \in 1..Len(rq.new_items)}]

\* variant: the product updates of the loop reach the store although the
\* request failed (each one committed as it is made)
Close_Flushed(rq) == [Snapshot EXCEPT !.product = Commit(rq).product]

\* variant: the deletes of the cart rows reach the store although the request
\* failed
Close_Deleted(rq) == [Snapshot EXCEPT !.cartitem = Commit(rq).cartitem]

\* the committed store after the session is closed without a commit (the
\* HTTPException leaves the with-block of get_session): pending writes are dropped
Close(rq) == Snapshot

Store(s) ==
    /\ product' = s.product
    /\ cartitem' = s.cartitem
    /\ order' = s.order
    /\ orderitem' = s.orderitem

\* create_order, up to the first commit: load the cart, insert the order shell
CheckoutBegin(r, u) ==
    LET rq == Request("create_order", u, 0, 0, 0)
        cart_items == CartOf(cartitem, u)
    IN /\ Begin(r, rq)
       /\ IF EmptyCart(cart_items)
          THEN Finish(r, rq, 400, "Cart is empty") /\ UNCHANGED order
          ELSE /\ order' = order \cup
                     {[id |-> NextId(order), user_id |-> u, status |-> "pending",
                       total |-> 0]}
               /\ req' = [req EXCEPT ![r] =
                            [rq EXCEPT !.pc = "loop", !.cart_items = cart_items,
                                       !.order_id = NextId(order)]]
       /\ UNCHANGED <<user, product, cartitem, orderitem, review, auth>>

\* variant: the stock check of the loop never fails
Insufficient_Never(prod, ci) == FALSE

\* if prod.stock_quantity < ci.quantity
Insufficient(prod, ci) == prod.stock_quantity < ci.quantity

\* the first commit of create_order expires the objects of its session: the
\* first read of a cart row's attribute in the loop loads the row again, as
\* it is committed then (None: the row is gone, ObjectDeletedError)
Refresh(row) == Get(cartitem, row.id)

\* create_order, one iteration of "for ci in cart_items"
CheckoutItem(r) ==
    LET rq == req[r]
    IN /\ rq.op = "create_order" /\ rq.pc = "loop"
       /\ \E row \in rq.cart_items :
            LET ci == Refresh(row)
                prod == SessionGet(rq, ci.product_id)
            IN IF IsNone(ci)
               THEN /\ Finish(r, [rq EXCEPT !.total = 0], 500, "Internal Server Error")
                    /\ Store(Close(rq))
                    /\ UNCHANGED <<user, review, auth>>
               ELSE IF IsNone(prod)
               THEN /\ req' = [req EXCEPT ![r] = SkipMissing(rq, row)]
                    /\ UNCHANGED <<tables, auth>>
               ELSE IF Insufficient(prod, ci)
               THEN /\ Finish(r, [rq EXCEPT !.product_id = prod.id, !.total = 0],
                              400, "Insufficient stock")
                    /\ Store(Close(rq))
                    /\ UNCHANGED <<user, review, auth>>
               ELSE /\ req' = [req EXCEPT ![r] =
                                 [rq EXCEPT
                                    !.cart_items = @ \ {row},
                                    !.deleted = @ \cup {ci.id},
                                    !.lines = @ \cup {ci.id},
                                    !.loaded = {x \in @ : x.id # prod.id}
                                                 \cup {DeductStock(prod, ci.quantity)},
                                    !.new_items =
                                        Append(@, NewOrderItem(rq.order_id, prod, ci)),
                                    !.total = @ + LineTotal(prod, ci)]]
                    /\ UNCHANGED <<tables, auth>>
       /\ UNCHANGED pre

\* the flush of session.commit() fails: the UPDATE of a loaded product whose
\* row was deleted meanwhile matches nothing (StaleDataError); the DELETE of a
\* cart row that is gone only warns
StaleData(rq) == \E p \in rq.loaded : ~HasRow(product, p.id)

\* create_order, after the loop: order.total = total; session.commit()
CheckoutCommit(r) ==
    LET rq == req[r]
    IN /\ rq.op = "create_order" /\ rq.pc = "loop"
       /\ rq.cart_items = {}
       /\ IF StaleData(rq)
          THEN /\ Store(Close(rq))
               /\ Finish(r, [rq EXCEPT !.total = 0], 500, "Internal Server Error")
          ELSE /\ Store(Commit(rq))
               /\ Finish(r, rq, 201, "created")
       /\ UNCHANGED <<user, review, auth, pre>>

\* VALID_STATUSES
VALID_STATUSES == {"pending", "confirmed", "shipped", "delivered", "cancelled"}

\* variant: every string is taken for a status
ValidStatus_Any(status) == TRUE

\* body.status in VALID_STATUSES
ValidStatus(status) == status \in VALID_STATUSES

\* variant: the row is written anew with the status, its total at the default
SetStatus_Rebuilds(found, status) == [found EXCEPT !.status = status, !.total = 0]

\* order.status = body.status
SetStatus(found, status) == [found EXCEPT !.status = status]

\* list_all_orders: reads the orders and their items
ListAllOrders(r, u) ==
    LET rq == Request("list_all_orders", u, 0, 0, 0)
    IN /\ Begin(r, rq)
       /\ IF ~IsAdmin(u)
          THEN Finish(r, rq, 403, "Admin access required")
          ELSE Finish(r, rq, 200, "ok")
       /\ UNCHANGED <<tables, auth>>

\* update_order_status
UpdateOrderStatus(r, u, order_id, status) ==
    LET rq == [Request("update_order_status", u, 0, 0, 0) EXCEPT
                  !.order_id = order_id, !.body = [status |-> status]]
        found == Get(order, order_id)
    IN /\ Begin(r, rq)
       /\ IF ~IsAdmin(u)
          THEN Finish(r, rq, 403, "Admin access required") /\ UNCHANGED order
          ELSE IF ~ValidStatus(status)
          THEN Finish(r, rq, 422, "Invalid status") /\ UNCHANGED order
          ELSE IF IsNone(found)
          THEN Finish(r, rq, 404, "Order not found") /\ UNCHANGED order
          ELSE /\ order' = (order \ {found}) \cup {SetStatus(found, status)}
               /\ Finish(r, rq, 200, "ok")
       /\ UNCHANGED <<user, product, cartitem, orderitem, review, auth>>

----------------------------------------------------------------------------
(* routers_products.py *)

\* the bodies of PATCH /products/{id} tried: the fields a body sets
ProductUpdates ==
    {[stock_quantity |-> s] : s \in 0..MaxStock} \cup {[in_stock |-> b] : b \in BOOLEAN}

\* variant: the fields the body leaves out are set too, to the None they
\* default to (dict() without exclude_unset), where the column takes a NULL
ApplyUpdate_SetsUnset(existing, upd) ==
    [f \in DOMAIN existing |->
        IF f \in DOMAIN upd THEN upd[f]
        ELSE IF f = "original_price" THEN Null ELSE existing[f]]

\* for key, val in prod_in.dict(exclude_unset=True).items(): setattr(existing, key, val)
ApplyUpdate(existing, upd) ==
    [f \in DOMAIN existing |-> IF f \in DOMAIN upd THEN upd[f] ELSE existing[f]]

\* the columns of product that the model keeps, besides id (name is required
\* like price; discount, category, sub, description, image, images, highlights
\* and features are nullable like original_price; is_featured has a default
\* like in_stock)
ProductFields ==
    {"price", "original_price", "rating", "review_count", "in_stock", "stock_quantity"}

\* the Field(default=...) of ProductBase
ProductDefault(f) ==
    CASE f = "original_price" -> Null
      [] f = "rating" -> Float(0)
      [] f = "review_count" -> 0
      [] f = "in_stock" -> TRUE
      [] f = "stock_quantity" -> 0

\* the validation of a ProductCreate body: price is required; rating has ge=0,
\* le=5; review_count and stock_quantity have ge=0 (FastAPI answers 422)
ValidProductCreate(body) ==
    /\ "price" \in DOMAIN body
    /\ "rating" \in DOMAIN body =>
          (0 <= body.rating.n /\ body.rating.n <= 5 * body.rating.d)
    /\ "review_count" \in DOMAIN body => body.review_count >= 0
    /\ "stock_quantity" \in DOMAIN body => body.stock_quantity >= 0

\* prod_in.dict() of a ProductCreate: every field, the unset ones at their default
Dict(body) ==
    [f \in ProductFields |-> IF f \in DOMAIN body THEN body[f] ELSE ProductDefault(f)]

\* a product row with the given id and the values of a dict of all the fields
ProductRow(id, values) ==
    [f \in ProductFields \cup {"id"} |-> IF f = "id" THEN id ELSE values[f]]

\* create_product
CreateProduct(r, u, body) ==
    LET rq == [Request("create_product", u, 0, 0, 0) EXCEPT !.body = body]
        db_prod == ProductRow(NextId(product), Dict(body))
    IN /\ Begin(r, rq)
       /\ IF ~IsAdmin(u)
          THEN Finish(r, rq, 403, "Admin access required") /\ UNCHANGED product
          ELSE IF ~ValidProductCreate(body)
          THEN Finish(r, rq, 422, "validation error") /\ UNCHANGED product
          ELSE /\ product' = product \cup {db_prod}
               /\ Finish(r, [rq EXCEPT !.product_id = db_prod.id], 201, "created")
       /\ UNCHANGED <<user, cartitem, order, orderitem, review, auth>>

\* replace_product
ReplaceProduct(r, u, p, body) ==
    LET rq == [Request("replace_product", u, p, 0, 0) EXCEPT !.body = body]
        existing == Get(product, p)
    IN /\ Begin(r, rq)
       /\ IF ~IsAdmin(u)
          THEN Finish(r, rq, 403, "Admin access required") /\ UNCHANGED product
          ELSE IF ~ValidProductCreate(body)
          THEN Finish(r, rq, 422, "validation error") /\ UNCHANGED product
          ELSE IF IsNone(existing)
          THEN Finish(r, rq, 404, "Product not found") /\ UNCHANGED product
          ELSE /\ product' = (product \ {existing}) \cup
                                {ProductRow(existing.id, Dict(body))}
               /\ Finish(r, rq, 200, "ok")
       /\ UNCHANGED <<user, cartitem, order, orderitem, review, auth>>

\* update_product
UpdateProduct(r, u, p, upd) ==
    LET rq == [Request("update_product", u, p, 0, 0) EXCEPT !.body = upd]
        existing == Get(product, p)
    IN /\ Begin(r, rq)
       /\ IF ~IsAdmin(u)
          THEN Finish(r, rq, 403, "Admin access required") /\ UNCHANGED product
          ELSE IF IsNone(existing)
          THEN Finish(r, rq, 404, "Product not found") /\ UNCHANGED product
          ELSE /\ product' = (product \ {existing}) \cup {ApplyUpdate(existing, upd)}
               /\ Finish(r, rq, 200, "ok")
       /\ UNCHANGED <<user, cartitem, order, orderitem, review, auth>>

\* delete_product (SQLite does not enforce the foreign keys of cartitem and
\* orderitem: their rows keep the product_id of the deleted product)
DeleteProduct(r, u, p) ==
    LET rq == Request("delete_product", u, p, 0, 0)
        prod == Get(product, p)
    IN /\ Begin(r, rq)
       /\ IF ~IsAdmin(u)
          THEN Finish(r, rq, 403, "Admin access required") /\ UNCHANGED product
          ELSE IF IsNone(prod)
          THEN Finish(r, rq, 404, "Product not found") /\ UNCHANGED product
          ELSE /\ product' = DeleteRows(product, {p})
               /\ Finish(r, rq, 204, "")
       /\ UNCHANGED <<user, cartitem, order, orderitem, review, auth>>

----------------------------------------------------------------------------
(* auth.py *)

\* select(User).where(User.email == email).first()
UserByEmail(table, email) ==
    IF \E u \in table : u.email = email
    THEN CHOOSE u \in table : u.email = email
    ELSE None

\* timegm(t.utctimetuple()): a time as whole seconds since the epoch, as
\* jwt.encode writes a datetime claim and jwt.decode reads the clock
Seconds(ticks) == ticks \div TicksPerSecond

\* create_access_token: expire = now + expires_delta; to_encode["exp"] = expire
create_access_token(data, expires_delta) ==
    [sub |-> data.sub, user_id |-> data.user_id,
     exp |-> Seconds(clock + expires_delta * TicksPerSecond)]

\* jwt.decode raises ExpiredSignatureError (a JWTError): exp < now
Expired(token, now) == token.exp < Seconds(now)

\* a request that carries no bearer token arrives
Arrive(r) ==
    /\ Free(r)
    /\ pre' = [pre EXCEPT ![r] = Snapshot]

\* variant: the lookup of the email finds nothing
EmailTaken_Never(table, email) == FALSE

\* existing = select(User).where(User.email == user_in.email).first(); if existing
EmailTaken(table, email) == \E u \in table : u.email = email

\* register, up to "if existing"
RegisterCheck(r, email, password) ==
    LET rq == [Request("register", 0, 0, 0, 0) EXCEPT !.email = email,
                                                       !.password = password]
    IN /\ Arrive(r)
       /\ IF EmailTaken(user, email)
          THEN Finish(r, rq, 400, "An account with this email already exists")
          ELSE req' = [req EXCEPT ![r] = [rq EXCEPT !.pc = "commit"]]
       /\ UNCHANGED <<tables, auth>>

\* register, from models.User(...) to the token: the INSERT fails on the unique
\* index of user.email when the email was stored meanwhile
RegisterCommit(r) ==
    LET rq == req[r]
        db_user == [id |-> NextId(user), email |-> rq.email,
                    hashed_password |-> get_password_hash(rq.password),
                    is_admin |-> FALSE, is_active |-> TRUE]
        token == create_access_token([sub |-> db_user.email, user_id |-> db_user.id],
                                     TokenLifetime)
    IN /\ rq.op = "register" /\ rq.pc = "commit"
       /\ IF \E u \in user : u.email = rq.email
          THEN /\ Finish(r, rq, 500, "Internal Server Error")
               /\ UNCHANGED <<user, tokens>>
          ELSE /\ user' = user \cup {db_user}
               /\ tokens' = tokens \cup {token}
               /\ Finish(r, [rq EXCEPT !.user_id = db_user.id, !.token = token],
                         201, "created")
       /\ UNCHANGED <<product, cartitem, order, orderitem, review, clock, pre>>

\* login
Login(r, email, password) ==
    LET rq == [Request("login", 0, 0, 0, 0) EXCEPT !.email = email,
                                                    !.password = password]
        found == UserByEmail(user, email)
        token == create_access_token([sub |-> found.email, user_id |-> found.id],
                                     TokenLifetime)
    IN /\ Arrive(r)
       /\ IF IsNone(found) \/ ~verify_password(password, found.hashed_password)
          THEN Finish(r, rq, 401, "Incorrect email or password") /\ UNCHANGED tokens
          ELSE IF ~found.is_active
          THEN Finish(r, rq, 400, "Inactive user account") /\ UNCHANGED tokens
          ELSE /\ tokens' = tokens \cup {token}
               /\ Finish(r, [rq EXCEPT !.user_id = found.id, !.token = token],
                         200, "ok")
       /\ UNCHANGED <<tables, clock>>

\* GET /auth/me: get_current_user, get_current_active_user and the profile
GetMe(r, token) ==
    LET rq == [Request("get_me", 0, 0, 0, 0) EXCEPT !.token = token, !.now = clock]
        found == UserByEmail(user, token.sub)
    IN /\ Arrive(r)
       /\ IF Expired(token, clock)
          THEN Finish(r, rq, 401, "Could not validate credentials")
          ELSE IF IsNone(found)
          THEN Finish(r, rq, 401, "Could not validate credentials")
          ELSE IF ~found.is_active
          THEN Finish(r, rq, 400, "Inactive user account")
          ELSE Finish(r, [rq EXCEPT !.user_id = found.id, !.email = found.email],
                      200, "ok")
       /\ UNCHANGED <<tables, auth>>

\* time passes
Tick ==
    /\ clock < MaxClock
    /\ clock' = clock + 1
    /\ UNCHANGED <<tables, tokens, req, pre>>

----------------------------------------------------------------------------
(* routers_reviews.py *)

\* select(Review).where(Review.product_id == product_id)
ReviewsOf(table, product_id) == {rv \in table : rv.product_id = product_id}

RECURSIVE TotalRating(_)
\* sum(r.rating for r in all_reviews)
TotalRating(reviews) ==
    IF reviews = {} THEN 0
    ELSE LET rv == CHOOSE x \in reviews : TRUE
         IN rv.rating + TotalRating(reviews \ {rv})

\* variant: the ratings are summed but not divided by their number
MeanRating_Sum(reviews) == Float(TotalRating(reviews))

\* total_rating / count if count > 0 else 0
MeanRating(reviews) ==
    IF Cardinality(reviews) > 0
    THEN Quotient(TotalRating(reviews), Cardinality(reviews))
    ELSE Float(0)

\* product.rating = ...; product.review_count = count; session.commit(): the
\* UPDATE of these two columns of the product's row
Recompute(table, product_id, reviews) ==
    {IF p.id = product_id
     THEN [p EXCEPT !.rating = MeanRating(reviews),
                    !.review_count = Cardinality(reviews)]
     ELSE p : p \in table}

\* Review(product_id=..., user_id=current_user.id, rating=review_in.rating): a
\* table model is constructed without validation, so any int is stored
NewReview(id, user_id, product_id, rating) ==
    [id |-> id, user_id |-> user_id, product_id |-> product_id, rating |-> rating]

\* create_review, up to the first commit: the review row is inserted
CreateReviewInsert(r, u, p, rating) ==
    LET rq == [Request("create_review", u, p, 0, 0) EXCEPT !.rating = rating]
    IN /\ Begin(r, rq)
       /\ IF IsNone(Get(product, p))
          THEN Finish(r, rq, 404, "Product not found") /\ UNCHANGED review
          ELSE /\ review' = review \cup {NewReview(NextId(review), u, p, rating)}
               /\ req' = [req EXCEPT ![r] =
                            [rq EXCEPT !.pc = "aggregate", !.review_id = NextId(review)]]
       /\ UNCHANGED <<user, product, cartitem, order, orderitem, auth>>

\* create_review, the select of all the product's reviews
CreateReviewAggregate(r) ==
    LET rq == req[r]
        all_reviews == ReviewsOf(review, rq.product_id)
    IN /\ rq.op = "create_review" /\ rq.pc = "aggregate"
       /\ req' = [req EXCEPT ![r] = [rq EXCEPT !.pc = "update", !.reviews = all_reviews]]
       /\ UNCHANGED <<tables, auth, pre>>

\* create_review, from product.rating = ... to the second commit (an UPDATE
\* that matches no row fails the request)
CreateReviewCommit(r) ==
    LET rq == req[r]
    IN /\ rq.op = "create_review" /\ rq.pc = "update"
       /\ IF HasRow(product, rq.product_id)
          THEN /\ product' = Recompute(product, rq.product_id, rq.reviews)
               /\ Finish(r, rq, 201, "created")
          ELSE /\ Finish(r, rq, 500, "Internal Server Error")
               /\ UNCHANGED product
       /\ UNCHANGED <<user, cartitem, order, orderitem, review, auth, pre>>

\* variant: the caller is not compared with the review's author
MayDelete_Anyone(rv, current_user) == TRUE

\* not (review.user_id != current_user.id and not current_user.is_admin)
MayDelete(rv, current_user) ==
    ~(rv.user_id # current_user.id /\ ~current_user.is_admin)

\* delete_review, up to the first commit: the review row is deleted
DeleteReviewDelete(r, u, review_id) ==
    LET rq == [Request("delete_review", u, 0, 0, 0) EXCEPT !.review_id = review_id]
        rv == Get(review, review_id)
    IN /\ Begin(r, rq)
       /\ IF IsNone(rv)
          THEN Finish(r, rq, 404, "Review not found") /\ UNCHANGED review
          ELSE IF ~MayDelete(rv, Get(user, u))
          THEN Finish(r, rq, 403, "Not authorized to delete this review")
               /\ UNCHANGED review
          ELSE /\ review' = DeleteRows(review, {review_id})
               /\ req' = [req EXCEPT ![r] =
                            [rq EXCEPT !.pc = "aggregate", !.product_id = rv.product_id]]
       /\ UNCHANGED <<user, product, cartitem, order, orderitem, auth>>

\* delete_review, session.get(Product, product_id) and the select of the
\* remaining reviews; without the product the request is done
DeleteReviewAggregate(r) ==
    LET rq == req[r]
        remaining_reviews == ReviewsOf(review, rq.product_id)
    IN /\ rq.op = "delete_review" /\ rq.pc = "aggregate"
       /\ IF HasRow(product, rq.product_id)
          THEN req' = [req EXCEPT ![r] =
                         [rq EXCEPT !.pc = "update", !.reviews = remaining_reviews]]
          ELSE Finish(r, rq, 204, "")
       /\ UNCHANGED <<tables, auth, pre>>

\* delete_review, from product.rating = ... to the second commit (an UPDATE
\* that matches no row fails the request)
DeleteReviewCommit(r) ==
    LET rq == req[r]
    IN /\ rq.op = "delete_review" /\ rq.pc = "update"
       /\ IF HasRow(product, rq.product_id)
          THEN /\ product' = Recompute(product, rq.product_id, rq.reviews)
               /\ Finish(r, rq, 204, "")
          ELSE /\ Finish(r, rq, 500, "Internal Server Error")
               /\ UNCHANGED product
       /\ UNCHANGED <<user, cartitem, order, orderitem, review, auth, pre>>

----------------------------------------------------------------------------
(* The requests of the model *)

\* the response has been sent: the slot is free for the next request
Return(r) ==
    /\ req[r].pc = "done"
    /\ req' = [req EXCEPT ![r] = Blank]
    /\ pre' = [pre EXCEPT ![r] = NoSnapshot]
    /\ UNCHANGED <<tables, auth>>

Quantities == 0..MaxStock
CartItemIds == 1..MaxCartItemId

\* requests are issued while the store has room for an order
OrderRoom(max) == NextId(order) <= max

NextOn(S) ==
    \E r \in S :
        \/ \E u \in ActiveUsers, p \in ProductIds, q \in Quantities :
              OrderRoom(MaxOrderId) /\ AddToCartRead(r, u, p, q)
        \/ AddToCartWrite(r)
        \/ \E u \in ActiveUsers, i \in CartItemIds, q \in Quantities :
              OrderRoom(MaxOrderId) /\ UpdateCartItem(r, u, i, q)
        \/ \E u \in ActiveUsers, i \in CartItemIds :
              OrderRoom(MaxOrderId) /\ DeleteCartItem(r, u, i)
        \/ \E u \in ActiveUsers : OrderRoom(MaxOrderId) /\ ClearCart(r, u)
        \/ \E u \in ActiveUsers : OrderRoom(MaxOrderId) /\ CheckoutBegin(r, u)
        \/ CheckoutItem(r)
        \/ CheckoutCommit(r)
        \/ \E u \in ActiveUsers, p \in ProductIds, upd \in ProductUpdates :
              OrderRoom(MaxOrderId) /\ UpdateProduct(r, u, p, upd)
        \/ \E u \in ActiveUsers, p \in ProductIds :
              OrderRoom(MaxOrderId) /\ DeleteProduct(r, u, p)
        \/ Return(r)

\* one request at a time: the requests do not overlap
Next == NextOn(SeqSlots)

Spec == Init /\ [][Next]_vars

\* the ratings tried in the bodies of POST /reviews/product/{id}: ReviewCreate
\* declares rating: int without a range
Ratings == {0, 1, 4, 5, 6}
ReviewIds == 1..MaxReviewId

\* reviews are posted while the table has room
ReviewRoom == NextId(review) <= MaxReviewId

\* a body of PATCH /products/{id} that overwrites the aggregate columns
AggregateUpdates == {[rating |-> Float(3), review_count |-> 1]}

\* the review requests, one at a time, with the admin's product writes that
\* touch what they use: the product row and its aggregate columns
NextReviewsOn(S) ==
    \E r \in S :
        \/ \E u \in ActiveUsers, p \in ProductIds, rating \in Ratings :
              ReviewRoom /\ CreateReviewInsert(r, u, p, rating)
        \/ CreateReviewAggregate(r)
        \/ CreateReviewCommit(r)
        \/ \E u \in ActiveUsers, i \in ReviewIds : DeleteReviewDelete(r, u, i)
        \/ DeleteReviewAggregate(r)
        \/ DeleteReviewCommit(r)
        \/ \E u \in ActiveUsers, p \in ProductIds, upd \in AggregateUpdates :
              UpdateProduct(r, u, p, upd)
        \/ \E u \in ActiveUsers, p \in ProductIds : DeleteProduct(r, u, p)
        \/ Return(r)

NextReviews == NextReviewsOn(SeqSlots)

SpecReviews == Init /\ [][NextReviews]_vars

\* the bodies of POST /products/ and PUT /products/{id} tried: the least body,
\* a body that sets every field, one with a negative stock and one without price
CreateBodies ==
    {[price |-> 120],
     [price |-> 120, original_price |-> {150}, rating |-> Quotient(9, 2),
      review_count |-> 2, in_stock |-> FALSE, stock_quantity |-> 1],
     [price |-> 120, stock_quantity |-> -1],
     [original_price |-> {150}]}

\* the bodies of PATCH /products/{id} tried
PatchBodies ==
    {[stock_quantity |-> -1], [price |-> 120, original_price |-> {150}],
     [original_price |-> Null], [in_stock |-> FALSE]}

CatalogIds == 1..MaxProductId

\* products are created while the table has room
ProductRoom == NextId(product) <= MaxProductId

\* the writes of the catalog, one request at a time
NextCatalogOn(S) ==
    \E r \in S :
        \/ \E u \in ActiveUsers, body \in CreateBodies :
              ProductRoom /\ CreateProduct(r, u, body)
        \/ \E u \in ActiveUsers, p \in CatalogIds, body \in CreateBodies :
              ReplaceProduct(r, u, p, body)
        \/ \E u \in ActiveUsers, p \in CatalogIds, upd \in PatchBodies :
              UpdateProduct(r, u, p, upd)
        \/ \E u \in ActiveUsers, p \in CatalogIds : DeleteProduct(r, u, p)
        \/ Return(r)

NextCatalog == NextCatalogOn(SeqSlots)

SpecCatalog == Init /\ [][NextCatalog]_vars

\* the back office: the demo user shops and reviews, the admin (and, in vain,
\* the demo user) writes products and order statuses
Shoppers == {u.id : u \in {x \in user : x.email = DEMO_EMAIL}}
OrderIds == 1..(MaxOrderId + 1)
StatusesTried == {"shipped", "refunded"}
OfficeBodies == {[price |-> 120]}

NextOfficeOn(S) ==
    \E r \in S :
        \/ \E u \in Shoppers, p \in ProductIds :
              OrderRoom(MaxOrderId + 1) /\ AddToCartRead(r, u, p, 1)
        \/ AddToCartWrite(r)
        \/ \E u \in Shoppers : OrderRoom(MaxOrderId + 1) /\ ClearCart(r, u)
        \/ \E u \in Shoppers : OrderRoom(MaxOrderId + 1) /\ CheckoutBegin(r, u)
        \/ CheckoutItem(r)
        \/ CheckoutCommit(r)
        \/ \E u \in ActiveUsers, i \in OrderIds, status \in StatusesTried :
              OrderRoom(MaxOrderId + 1) /\ UpdateOrderStatus(r, u, i, status)
        \/ \E u \in ActiveUsers : OrderRoom(MaxOrderId + 1) /\ ListAllOrders(r, u)
        \/ \E u \in ActiveUsers, body \in OfficeBodies :
              OrderRoom(MaxOrderId + 1) /\ ProductRoom /\ CreateProduct(r, u, body)
        \/ \E u \in ActiveUsers, body \in OfficeBodies :
              OrderRoom(MaxOrderId + 1) /\ ReplaceProduct(r, u, 1, body)
        \/ \E u \in ActiveUsers, upd \in OfficeBodies, p \in ProductIds :
              OrderRoom(MaxOrderId + 1) /\ UpdateProduct(r, u, p, upd)
        \/ \E u \in ActiveUsers : OrderRoom(MaxOrderId + 1) /\ DeleteProduct(r, u, 1)
        \/ \E u \in Shoppers :
              OrderRoom(MaxOrderId + 1) /\ ReviewRoom /\ CreateReviewInsert(r, u, 1, 5)
        \/ CreateReviewAggregate(r)
        \/ CreateReviewCommit(r)
        \/ \E u \in Shoppers, i \in ReviewIds :
              OrderRoom(MaxOrderId + 1) /\ DeleteReviewDelete(r, u, i)
        \/ DeleteReviewAggregate(r)
        \/ DeleteReviewCommit(r)
        \/ Return(r)

NextOffice == NextOfficeOn(SeqSlots)

SpecOffice == Init /\ [][NextOffice]_vars

\* the product the racing shoppers want, and the quantities they add of it
RaceProducts == {1}
RaceQuantities == 1..MaxStock

\* the shoppers' requests, which may overlap: the users fill their carts and
\* check out, two requests at a time (of two users, or of one user twice)
NextRace ==
    \E r \in Slots :
        \/ \E u \in ActiveUsers, p \in RaceProducts, q \in RaceQuantities :
              OrderRoom(MaxOrderId + 1) /\ AddToCartRead(r, u, p, q)
        \/ AddToCartWrite(r)
        \/ \E u \in ActiveUsers : OrderRoom(MaxOrderId + 1) /\ CheckoutBegin(r, u)
        \/ CheckoutItem(r)
        \/ CheckoutCommit(r)
        \/ Return(r)

SpecRace == Init /\ [][NextRace]_vars

\* the ratings the racing reviewers give
RaceRatings == {1, 5}

\* the review requests of a user on one product, which may overlap
NextReviewRace ==
    \E r \in Slots :
        \/ \E u \in Shoppers, p \in RaceProducts, rating \in RaceRatings :
              ReviewRoom /\ CreateReviewInsert(r, u, p, rating)
        \/ CreateReviewAggregate(r)
        \/ CreateReviewCommit(r)
        \/ \E u \in Shoppers, i \in ReviewIds : DeleteReviewDelete(r, u, i)
        \/ DeleteReviewAggregate(r)
        \/ DeleteReviewCommit(r)
        \/ Return(r)

SpecReviewRace == Init /\ [][NextReviewRace]_vars

\* the statuses the admin sets in the shop runs
ShopStatuses == {"cancelled"}

\* the shop without admin product writes, one request at a time: the users
\* fill, change and clear their carts and check out, the demo user reviews,
\* and the admin sets order statuses
NextShop ==
    \E r \in SeqSlots :
        \/ \E u \in ActiveUsers, p \in ProductIds, q \in RaceQuantities :
              OrderRoom(MaxOrderId + 1) /\ AddToCartRead(r, u, p, q)
        \/ AddToCartWrite(r)
        \/ \E u \in ActiveUsers, i \in CartItemIds, q \in RaceQuantities :
              OrderRoom(MaxOrderId + 1) /\ UpdateCartItem(r, u, i, q)
        \/ \E u \in ActiveUsers, i \in CartItemIds :
              OrderRoom(MaxOrderId + 1) /\ DeleteCartItem(r, u, i)
        \/ \E u \in ActiveUsers : OrderRoom(MaxOrderId + 1) /\ ClearCart(r, u)
        \/ \E u \in ActiveUsers : OrderRoom(MaxOrderId + 1) /\ CheckoutBegin(r, u)
        \/ CheckoutItem(r)
        \/ CheckoutCommit(r)
        \/ \E u \in ActiveUsers, i \in OrderIds, status \in ShopStatuses :
              UpdateOrderStatus(r, u, i, status)
        \/ \E u \in Shoppers, p \in RaceProducts :
              ReviewRoom /\ CreateReviewInsert(r, u, p, 5)
        \/ CreateReviewAggregate(r)
        \/ CreateReviewCommit(r)
        \/ \E u \in Shoppers, i \in ReviewIds : DeleteReviewDelete(r, u, i)
        \/ DeleteReviewAggregate(r)
        \/ DeleteReviewCommit(r)
        \/ Return(r)

SpecShop == Init /\ [][NextShop]_vars

\* the emails and passwords tried by register and login
Emails == {ADMIN_EMAIL, DEMO_EMAIL, "new@aureliajewels.com"}
Passwords == {DEMO_PASSWORD, "New@1234"}

\* accounts are registered while the table has room, tokens issued while the
\* clients hold few
UserRoom == NextId(user) <= MaxUserId
TokenRoom == Cardinality(tokens) < MaxTokens

\* the requests of the auth router, which may overlap, and the clock
NextAuth ==
    \/ \E r \in Slots :
          \/ \E e \in Emails, pw \in Passwords :
                UserRoom /\ TokenRoom /\ RegisterCheck(r, e, pw)
          \/ RegisterCommit(r)
          \/ \E e \in Emails, pw \in Passwords : TokenRoom /\ Login(r, e, pw)
          \/ \E token \in tokens : GetMe(r, token)
          \/ Return(r)
    \/ Tick

SpecAuth == Init /\ [][NextAuth]_vars

----------------------------------------------------------------------------
(* What the claims are stated with: the store before the request (pre), the
   finished request and its response (req), and the store after it *)

Done(r, op) == req[r].op = op /\ req[r].pc = "done"

\* the cart lines of a user in a store
LinesOf(store, user_id) == {ci \in store.cartitem : ci.user_id = user_id}

\* the lines of a set whose product is a row of the store
LiveLines(store, lines) == {ci \in lines : HasRow(store.product, ci.product_id)}

RECURSIVE CartValue(_, _)
\* the sum over the lines of product price x quantity
CartValue(store, lines) ==
    IF lines = {} THEN 0
    ELSE LET ci == CHOOSE x \in lines : TRUE
         IN Get(store.product, ci.product_id).price * ci.quantity
              + CartValue(store, lines \ {ci})

\* every line's product exists and has the stock for it
AllInStock(store, lines) ==
    \A ci \in lines :
        /\ HasRow(store.product, ci.product_id)
        /\ Get(store.product, ci.product_id).stock_quantity >= ci.quantity

\* the quantity a set of lines asks of a product
RECURSIVE Asked(_, _)
Asked(lines, product_id) ==
    IF lines = {} THEN 0
    ELSE LET ci == CHOOSE x \in lines : TRUE
         IN (IF ci.product_id = product_id THEN ci.quantity ELSE 0)
              + Asked(lines \ {ci}, product_id)

Aborted(r) ==
    Done(r, "create_order") /\ req[r].status = 400 /\ req[r].detail = "Insufficient stock"

\* C1: a checkout of a non-empty cart whose products all exist with enough stock
\* answers 201 with one new order of that user whose total is the cart's value
\* (the sum over its lines of price x quantity), and the user's cart is empty after it
C1_CheckoutTotal ==
    \A r \in Slots :
        LET u == req[r].user_id
            lines == LinesOf(pre[r], u)
        IN (Done(r, "create_order") /\ lines # {} /\ AllInStock(pre[r], lines)) =>
              /\ req[r].status = 201
              /\ req[r].total = CartValue(pre[r], lines)
              /\ order = pre[r].order \cup
                    {[id |-> req[r].order_id, user_id |-> u, status |-> "pending",
                      total |-> CartValue(pre[r], lines)]}
              /\ ~HasRow(pre[r].order, req[r].order_id)
              /\ LinesOf(Snapshot, u) = {}

C1_Witness ==
    \E r \in Slots :
        /\ Done(r, "create_order") /\ req[r].status = 201
        /\ Cardinality(LinesOf(pre[r], req[r].user_id)) = 2
        /\ AllInStock(pre[r], LinesOf(pre[r], req[r].user_id))
        /\ req[r].total = SeedPrice(1) + SeedPrice(2)

\* C2: a checkout that answers 201 leaves every product a row, with its stock
\* lowered by exactly the quantity the cart asked of it, in_stock false if the
\* product was ordered and its stock reached zero and as it was otherwise, and
\* the price untouched; so a product outside the cart is unchanged
C2_StockDeducted ==
    \A r \in Slots :
        LET lines == LinesOf(pre[r], req[r].user_id)
        IN (Done(r, "create_order") /\ req[r].status = 201) =>
              /\ {p.id : p \in product} = {p.id : p \in pre[r].product}
              /\ \A p \in pre[r].product :
                    LET now == Get(product, p.id)
                        q == Asked(lines, p.id)
                    IN /\ now.stock_quantity = p.stock_quantity - q
                       /\ now.price = p.price
                       /\ now.in_stock =
                            (IF q > 0 /\ p.stock_quantity - q = 0 THEN FALSE
                             ELSE p.in_stock)

C2_Witness ==
    \E r \in Slots :
        /\ Done(r, "create_order") /\ req[r].status = 201
        /\ \E p \in pre[r].product :
              /\ p.in_stock /\ p.stock_quantity = MaxStock
              /\ Get(product, p.id).stock_quantity = 0
              /\ ~Get(product, p.id).in_stock
        /\ \E p \in pre[r].product :
              /\ Asked(LinesOf(pre[r], req[r].user_id), p.id) = 1
              /\ Get(product, p.id).stock_quantity = p.stock_quantity - 1
              /\ Get(product, p.id).in_stock

\* C3 as claimed: after a checkout aborted with "Insufficient stock", the products
\* of the lines the loop had processed before are still decremented in the store
C3_EarlierDecrementsKept ==
    \A r \in Slots :
        Aborted(r) =>
            \A i \in 1..Len(req[r].new_items) :
                LET it == req[r].new_items[i]
                IN Get(product, it.product_id).stock_quantity
                      = Get(pre[r].product, it.product_id).stock_quantity - it.quantity

\* C3: after a checkout aborted with "Insufficient stock" the product table is
\* what it was before the request: the decrements of the lines processed earlier
\* were pending in the session and are dropped with it
C3_DecrementsRolledBack ==
    \A r \in Slots : Aborted(r) => product = pre[r].product

C3_Witness ==
    \E r \in Slots :
        /\ Aborted(r)
        /\ Len(req[r].new_items) >= 1
        /\ product = pre[r].product

\* C4 as claimed: a checkout that aborts with "Insufficient stock" leaves no
\* order row behind (the order is written together with its items or not at all)
C4_NoOrderAfterAbort ==
    \A r \in Slots : Aborted(r) => order = pre[r].order

\* C5: a checkout by a user without cart rows answers 400 "Cart is empty" and
\* the store is what it was: no order, no order item, no product changed
C5_EmptyCartUnchanged ==
    \A r \in Slots :
        (Done(r, "create_order") /\ LinesOf(pre[r], req[r].user_id) = {}) =>
            /\ req[r].status = 400 /\ req[r].detail = "Cart is empty"
            /\ Snapshot = pre[r]

C5_Witness ==
    \E r \in Slots :
        /\ Done(r, "create_order") /\ req[r].detail = "Cart is empty"
        /\ LinesOf(pre[r], req[r].user_id) = {}
        /\ pre[r].cartitem # {}
        /\ Snapshot = pre[r]

\* the order items of an order, without their ids
ItemsOf(order_id) ==
    {[product_id |-> oi.product_id, quantity |-> oi.quantity, price |-> oi.price] :
        oi \in {x \in orderitem : x.order_id = order_id}}

\* C6: a checkout whose remaining lines have their stock answers 201 although
\* some lines' products are gone; the new order has one item per line whose
\* product exists and none for the others, its total is the value of those
\* lines alone, and all the user's cart rows, the dangling ones too, are deleted
C6_MissingProductDropped ==
    \A r \in Slots :
        LET u == req[r].user_id
            lines == LinesOf(pre[r], u)
            live == LiveLines(pre[r], lines)
        IN /\ (Done(r, "create_order") /\ lines # {} /\ AllInStock(pre[r], live)) =>
                 req[r].status = 201
           /\ (Done(r, "create_order") /\ req[r].status = 201) =>
                 /\ ItemsOf(req[r].order_id) =
                       {[product_id |-> ci.product_id, quantity |-> ci.quantity,
                         price |-> Get(pre[r].product, ci.product_id).price] :
                            ci \in live}
                 /\ Cardinality({x \in orderitem : x.order_id = req[r].order_id})
                       = Cardinality(live)
                 /\ Get(order, req[r].order_id).total = CartValue(pre[r], live)
                 /\ LinesOf(Snapshot, u) = {}

C6_Witness ==
    \E r \in Slots :
        LET lines == LinesOf(pre[r], req[r].user_id)
            live == LiveLines(pre[r], lines)
        IN /\ Done(r, "create_order") /\ req[r].status = 201
           /\ live # {} /\ live # lines
           /\ Cardinality(ItemsOf(req[r].order_id)) = Cardinality(live)
           /\ LinesOf(Snapshot, req[r].user_id) = {}

\* the rows of a store's cart for a user and a product
RowsFor(store, user_id, product_id) ==
    {ci \in store.cartitem : ci.user_id = user_id /\ ci.product_id = product_id}

\* C7: the cart never holds two rows with the same user and product, and an
\* add_to_cart that answers 201 for a product already in the caller's cart adds
\* the quantity to that row (otherwise it inserts one row with the quantity)
C7_OneRowPerProduct ==
    /\ \A a, b \in cartitem :
          (a.user_id = b.user_id /\ a.product_id = b.product_id) => a = b
    /\ \A r \in Slots :
          LET u == req[r].user_id
              p == req[r].product_id
              old == RowsFor(pre[r], u, p)
          IN (Done(r, "add_to_cart") /\ req[r].status = 201) =>
                IF old # {}
                THEN \E ex \in old :
                        cartitem = (pre[r].cartitem \ {ex}) \cup
                                      {[ex EXCEPT !.quantity = ex.quantity + req[r].quantity]}
                ELSE \E id \in 1..MaxCartItemId :
                        /\ ~HasRow(pre[r].cartitem, id)
                        /\ cartitem = pre[r].cartitem \cup
                              {[id |-> id, user_id |-> u, product_id |-> p,
                                quantity |-> req[r].quantity]}

C7_Witness ==
    \E r \in Slots :
        /\ Done(r, "add_to_cart") /\ req[r].status = 201 /\ req[r].quantity = 1
        /\ \E ex \in RowsFor(pre[r], req[r].user_id, req[r].product_id) : ex.quantity = 1
        /\ \E ci \in cartitem : ci.quantity = 2
        /\ Cardinality(RowsFor(Snapshot, req[r].user_id, req[r].product_id)) = 1

NotFound(r) == req[r].status = 404
OutOfStock(r) == req[r].status = 400 /\ req[r].detail = "Product is out of stock"
InsufficientStock(r) ==
    req[r].status = 400 /\ req[r].detail \in {"insufficient stock", "Insufficient stock"}

\* C8: an add_to_cart (of a quantity >= 1) answers NotFound when the product is
\* no row, else OutOfStock when in_stock is false, else InsufficientStock when
\* the quantity, or the quantity plus the caller's existing row's, exceeds
\* stock_quantity; every answer but 201 leaves the cart as it was, and after a
\* 201 the caller's row asks no more than the product's stock_quantity
C8_AddItemErrors ==
    \A r \in Slots :
        LET u == req[r].user_id
            p == req[r].product_id
            q == req[r].quantity
            prod == Get(pre[r].product, p)
            had == Asked(RowsFor(pre[r], u, p), p)
        IN (Done(r, "add_to_cart") /\ q >= 1) =>
              /\ IsNone(prod) => NotFound(r)
              /\ (~IsNone(prod) /\ ~prod.in_stock) => OutOfStock(r)
              /\ (~IsNone(prod) /\ prod.in_stock
                    /\ (q > prod.stock_quantity \/ had + q > prod.stock_quantity))
                    => InsufficientStock(r)
              /\ req[r].status # 201 => cartitem = pre[r].cartitem
              /\ req[r].status = 201 =>
                    \A ci \in RowsFor(Snapshot, u, p) :
                        ci.quantity <= Get(product, p).stock_quantity

C8_Witness ==
    \E r \in Slots :
        LET prod == Get(pre[r].product, req[r].product_id)
            had == Asked(RowsFor(pre[r], req[r].user_id, req[r].product_id),
                         req[r].product_id)
        IN /\ Done(r, "add_to_cart") /\ InsufficientStock(r)
           /\ had >= 1 /\ req[r].quantity >= 1
           /\ req[r].quantity <= prod.stock_quantity
           /\ had + req[r].quantity > prod.stock_quantity
           /\ cartitem = pre[r].cartitem

\* C9 as claimed: update_cart_item on a row of the caller deletes the row and
\* answers 204 when the quantity is <= 0; with a quantity >= 1 it sets the row's
\* quantity when the product's stock_quantity allows it and else answers
\* InsufficientStock and leaves the row
C9_SetQuantity ==
    \A r \in Slots :
        LET u == req[r].user_id
            q == req[r].quantity
            row == Get(pre[r].cartitem, req[r].item_id)
            prod == Get(pre[r].product, row.product_id)
        IN (Done(r, "update_cart_item") /\ ~IsNone(row) /\ row.user_id = u) =>
              IF q <= 0
              THEN req[r].status = 204 /\ cartitem = pre[r].cartitem \ {row}
              ELSE IF IsNone(prod) THEN TRUE
              ELSE IF q <= prod.stock_quantity
              THEN cartitem = (pre[r].cartitem \ {row}) \cup {[row EXCEPT !.quantity = q]}
              ELSE InsufficientStock(r) /\ cartitem = pre[r].cartitem

\* the cart rows of the users other than user_id
OthersRows(store, user_id) == {ci \in store.cartitem : ci.user_id # user_id}

----------------------------------------------------------------------------
(* Reviews *)

\* the reviews of a product in a store
StoredReviews(store, product_id) == {rv \in store.review : rv.product_id = product_id}

RECURSIVE RatingSum(_)
RatingSum(reviews) ==
    IF reviews = {} THEN 0
    ELSE LET rv == CHOOSE x \in reviews : TRUE
         IN rv.rating + RatingSum(reviews \ {rv})

\* a completed create_review or delete_review
ReviewDone(r) ==
    \/ Done(r, "create_review") /\ req[r].status = 201
    \/ Done(r, "delete_review") /\ req[r].status = 204

\* the product's aggregate columns agree with its reviews: review_count is their
\* number and rating (a fraction n/d) their mean, 0 without reviews
AggregateAgrees(store, product_id) ==
    LET prod == Get(store.product, product_id)
        reviews == StoredReviews(store, product_id)
        count == Cardinality(reviews)
    IN /\ prod.review_count = count
       /\ prod.rating.d > 0
       /\ IF count = 0 THEN prod.rating.n = 0
          ELSE prod.rating.n * count = RatingSum(reviews) * prod.rating.d

\* C11: when a create_review or delete_review has completed (requests one at a
\* time) and the product is a row, the product's review_count is the number of
\* its reviews and its rating is their arithmetic mean, 0 when none remain; a
\* first review of rating 5 gives rating 5.0 and review_count 1
C11_AggregateMatchesReviews ==
    \A r \in Slots :
        (ReviewDone(r) /\ HasRow(product, req[r].product_id)) =>
            /\ AggregateAgrees(Snapshot, req[r].product_id)
            /\ (Done(r, "create_review") /\ req[r].rating = 5
                  /\ StoredReviews(pre[r], req[r].product_id) = {}) =>
                    /\ Get(product, req[r].product_id).rating = [n |-> 5, d |-> 1]
                    /\ Get(product, req[r].product_id).review_count = 1

\* the spec's example, second half: the only review of a product, of rating 5
\* with the aggregate 5.0 and 1, is deleted and the aggregate is 0 and 0
C11_Witness ==
    \E r \in Slots :
        LET p == req[r].product_id
        IN /\ Done(r, "delete_review") /\ req[r].status = 204
           /\ HasRow(product, p)
           /\ Cardinality(StoredReviews(pre[r], p)) = 1
           /\ \A rv \in StoredReviews(pre[r], p) : rv.rating = 5
           /\ Get(pre[r].product, p).rating = [n |-> 5, d |-> 1]
           /\ Get(pre[r].product, p).review_count = 1
           /\ Get(product, p).rating = [n |-> 0, d |-> 1]
           /\ Get(product, p).review_count = 0

\* C12 as claimed: every stored review has a rating in 1..5, and every
\* product's rating is within 0..5
C12_RatingsInRange ==
    /\ \A rv \in review : rv.rating \in 1..5
    /\ \A p \in product :
          /\ 0 <= p.rating.n
          /\ p.rating.n <= 5 * p.rating.d

\* C13: a delete_review of a review that is no row answers 404; of a review the
\* caller neither wrote nor may administer it answers 403; after either answer
\* the store (the reviews, the products' rating and review_count) is as before
C13_DeleteReviewErrors ==
    \A r \in Slots :
        LET rv == Get(pre[r].review, req[r].review_id)
            caller == Get(pre[r].user, req[r].user_id)
        IN Done(r, "delete_review") =>
              /\ IsNone(rv) => req[r].status = 404
              /\ (~IsNone(rv) /\ rv.user_id # caller.id /\ ~caller.is_admin)
                    => req[r].status = 403
              /\ req[r].status \in {403, 404} => Snapshot = pre[r]

C13_Witness ==
    \E r \in Slots :
        LET rv == Get(pre[r].review, req[r].review_id)
            caller == Get(pre[r].user, req[r].user_id)
        IN /\ Done(r, "delete_review") /\ req[r].status = 403
           /\ ~IsNone(rv) /\ rv.user_id # caller.id /\ ~caller.is_admin
           /\ Get(pre[r].product, rv.product_id).review_count = 1
           /\ Snapshot = pre[r]

----------------------------------------------------------------------------
(* Accounts and tokens *)

\* no two accounts share an email
UniqueEmails == \A a, b \in user : a.email = b.email => a = b

\* a register request is answered in this step
RegisterAnswered(r) ==
    /\ req[r].pc # "done"
    /\ req'[r].op = "register" /\ req'[r].pc = "done"

\* an account with the email was stored when the request arrived
WasStored(store, email) == \E u \in store.user : u.email = email

\* C14: no two accounts ever share an email, and the step that answers a
\* register whose email belonged to a stored account when the request arrived
\* answers 400 "An account with this email already exists" and leaves the user
\* table as it is
C14_DuplicateEmail ==
    /\ []UniqueEmails
    /\ [][\A r \in Slots :
            (RegisterAnswered(r) /\ WasStored(pre'[r], req'[r].email)) =>
                /\ req'[r].status = 400
                /\ req'[r].detail = "An account with this email already exists"
                /\ user' = user]_vars

\* the second registration of an email that a first registration stored
C14_Witness ==
    \E r \in Slots :
        /\ Done(r, "register") /\ req[r].status = 400
        /\ \E u \in pre[r].user :
              /\ u.email = req[r].email
              /\ u.email \notin {ADMIN_EMAIL, DEMO_EMAIL}
        /\ user = pre[r].user

\* C15 as claimed: a GET /auth/me with an issued token, at a time before the
\* token's expiry (its exp claim), answers with the account of the token's id
\* and email; at or after the expiry, or when no account has the token's
\* subject, it answers 401
C15_TokenUntilExpiry ==
    \A r \in Slots :
        LET token == req[r].token
            expiry == token.exp * TicksPerSecond
            known == WasStored(pre[r], token.sub)
        IN Done(r, "get_me") =>
              /\ (req[r].now < expiry /\ known) =>
                    /\ req[r].status = 200
                    /\ req[r].user_id = token.user_id
                    /\ req[r].email = token.sub
              /\ (req[r].now >= expiry \/ ~known) => req[r].status = 401

----------------------------------------------------------------------------
(* Catalog *)

\* what replace leaves in a field the body does not name: NULL in the nullable
\* original_price, the schema's default in the others
Unnamed(f) ==
    IF f = "original_price" THEN {}
    ELSE IF f = "rating" THEN [n |-> 0, d |-> 1]
    ELSE IF f = "review_count" THEN 0
    ELSE IF f = "in_stock" THEN TRUE
    ELSE 0

\* the products other than product_id are the same rows in both stores
OthersSame(before, after, product_id) ==
    {p \in before.product : p.id # product_id} = {p \in after.product : p.id # product_id}

\* C19: an update_product that answers 200 leaves in every field of the product
\* the body's value if the body names the field and the old value if not; a
\* replace_product that answers 200 leaves in every field the body's value if
\* the body names it, null if it does not and the field is nullable, and the
\* schema's default otherwise; the id stays, the other products are untouched,
\* and after any other answer the product table is as before
C19_PatchAndReplace ==
    \A r \in Slots :
        LET body == req[r].body
            old == Get(pre[r].product, req[r].product_id)
            new == Get(product, req[r].product_id)
        IN /\ (Done(r, "update_product") /\ req[r].status = 200) =>
                 /\ ~IsNone(old) /\ ~IsNone(new)
                 /\ \A f \in ProductFields :
                       new[f] = (IF f \in DOMAIN body THEN body[f] ELSE old[f])
                 /\ OthersSame(pre[r], Snapshot, req[r].product_id)
           /\ (Done(r, "replace_product") /\ req[r].status = 200) =>
                 /\ ~IsNone(old) /\ ~IsNone(new)
                 /\ \A f \in ProductFields :
                       new[f] = (IF f \in DOMAIN body THEN body[f] ELSE Unnamed(f))
                 /\ OthersSame(pre[r], Snapshot, req[r].product_id)
           /\ ((Done(r, "update_product") \/ Done(r, "replace_product"))
                 /\ req[r].status # 200) => product = pre[r].product

\* a replace whose body names only the price, on a product that had an
\* original_price and a stock: both are reset; the other product is untouched
C19_Witness ==
    \E r \in Slots :
        LET old == Get(pre[r].product, req[r].product_id)
            new == Get(product, req[r].product_id)
        IN /\ Done(r, "replace_product") /\ req[r].status = 200
           /\ DOMAIN req[r].body = {"price"}
           /\ old.original_price # {} /\ old.stock_quantity > 0 /\ ~old.in_stock
           /\ new.original_price = {} /\ new.stock_quantity = 0 /\ new.in_stock
           /\ new.price = req[r].body.price
           /\ Cardinality(product) > 1

\* C20 as claimed: the stock_quantity of every product is >= 0 in every state
C20_StockNeverNegative == \A p \in product : p.stock_quantity >= 0

----------------------------------------------------------------------------
(* The back office *)

AdminRoutes ==
    {"create_product", "replace_product", "update_product", "delete_product",
     "list_all_orders", "update_order_status"}

\* C16: a create, replace, update or delete of a product, a listing of all
\* orders or an update of an order's status requested by a user whose is_admin
\* is false answers 403 and leaves the whole store as it was
C16_AdminOnly ==
    \A r \in Slots :
        (req[r].op \in AdminRoutes /\ req[r].pc = "done"
           /\ ~Get(pre[r].user, req[r].user_id).is_admin) =>
              /\ req[r].status = 403
              /\ Snapshot = pre[r]

\* the demo user asks to set the status of an order that exists to a valid one
C16_Witness ==
    \E r \in Slots :
        /\ Done(r, "update_order_status") /\ req[r].status = 403
        /\ ~Get(pre[r].user, req[r].user_id).is_admin
        /\ HasRow(pre[r].order, req[r].order_id)
        /\ req[r].body.status = "shipped"
        /\ Get(order, req[r].order_id).status = "pending"
        /\ Snapshot = pre[r]

\* the checkout that made the order is no longer running
Completed(o) ==
    \A r \in Slots :
        ~(req[r].op = "create_order" /\ req[r].pc = "loop" /\ req[r].order_id = o.id)

\* the order items of an order, as rows
ItemRows(table, order_id) == {oi \in table : oi.order_id = order_id}

\* this step answers an update_order_status for the order
StatusAnswered(order_id) ==
    \E r \in Slots :
        /\ req[r].pc # "done"
        /\ req'[r].op = "update_order_status" /\ req'[r].pc = "done"
        /\ req'[r].order_id = order_id

\* C17: no step of any request changes an order whose checkout is over: the
\* order stays a row with its id, user_id and total, its order items stay the
\* same rows (product_id, quantity, price), and its status changes only in a
\* step that answers an update_order_status for it
C17_OrdersImmutable ==
    [][\A o \in order :
          Completed(o) =>
             /\ \E o2 \in order' :
                   /\ o2.id = o.id /\ o2.user_id = o.user_id /\ o2.total = o.total
                   /\ o2.status # o.status => StatusAnswered(o.id)
             /\ Cardinality({o2 \in order' : o2.id = o.id}) = 1
             /\ ItemRows(orderitem', o.id) = ItemRows(orderitem, o.id)]_vars

\* after an order of the product at one price, the product's price has been
\* changed, a second order has been made, and the first order's status set
C17_Witness ==
    \E r \in Slots, o \in order, oi \in orderitem :
        /\ Done(r, "create_order") /\ req[r].status = 201
        /\ req[r].order_id # o.id
        /\ oi.order_id = o.id
        /\ o.status = "shipped" /\ o.total = oi.price * oi.quantity
        /\ HasRow(product, oi.product_id)
        /\ Get(product, oi.product_id).price # oi.price
        /\ \E oj \in orderitem :
              /\ oj.order_id = req[r].order_id /\ oj.product_id = oi.product_id
              /\ oj.price # oi.price

\* C18: the status of every order is one of VALID_STATUSES in every state: a
\* checkout inserts its order as pending, and an update_order_status by an
\* admin with another value answers 422 and leaves the orders as they were
C18_ValidStatuses ==
    /\ \A o \in order :
          o.status \in {"pending", "confirmed", "shipped", "delivered", "cancelled"}
    /\ \A r \in Slots :
          (req[r].op = "create_order" /\ req[r].order_id # 0) =>
              /\ ~HasRow(pre[r].order, req[r].order_id)
              /\ Get(order, req[r].order_id).status = "pending"
    /\ \A r \in Slots :
          (Done(r, "update_order_status")
             /\ Get(pre[r].user, req[r].user_id).is_admin
             /\ req[r].body.status \notin
                   {"pending", "confirmed", "shipped", "delivered", "cancelled"}) =>
                /\ req[r].status = 422
                /\ order = pre[r].order

C18_Witness ==
    \E r \in Slots :
        /\ Done(r, "update_order_status") /\ req[r].status = 422
        /\ Get(pre[r].user, req[r].user_id).is_admin
        /\ req[r].body.status = "refunded"
        /\ HasRow(order, req[r].order_id)
        /\ order = pre[r].order

----------------------------------------------------------------------------
(* Overlapping requests *)

RECURSIVE Sold(_, _)
\* the quantity of a product in a set of order items
Sold(items, product_id) ==
    IF items = {} THEN 0
    ELSE LET oi == CHOOSE x \in items : TRUE
         IN (IF oi.product_id = product_id THEN oi.quantity ELSE 0)
              + Sold(items \ {oi}, product_id)

RECURSIVE Building(_, _)
\* the quantity of a product in the order lines a checkout has built
Building(new_items, product_id) ==
    IF new_items = <<>> THEN 0
    ELSE (IF Head(new_items).product_id = product_id THEN Head(new_items).quantity
          ELSE 0) + Building(Tail(new_items), product_id)

\* the step is the commit of the checkout in slot r
Commits(r) ==
    /\ req[r].op = "create_order" /\ req[r].pc = "loop"
    /\ req'[r].pc = "done" /\ req'[r].status = 201

\* the stock of a product as the checkout in slot r read it, before its own
\* deductions, is not the committed stock: another request wrote it meanwhile
StaleStock(r, product_id) ==
    /\ HasRow(req[r].loaded, product_id)
    /\ Get(req[r].loaded, product_id).stock_quantity
          + Building(req[r].new_items, product_id)
          # Get(product, product_id).stock_quantity

\* C21: checkouts that overlap oversell: a step records more of a product in
\* OrderItems than the committed stock holds only when it is the commit of a
\* checkout that read the stock before another request's decrement was written
\* (each checkout passes the stock check on what it read), and the committed
\* stock is never negative, so the oversell does not show in the product row
C21_OversellByStaleRead ==
    /\ [](\A p \in product : p.stock_quantity >= 0)
    /\ [][\A p \in product :
            Sold(orderitem', p.id) - Sold(orderitem, p.id) > p.stock_quantity =>
                \E r \in Slots : Commits(r) /\ StaleStock(r, p.id)]_vars

\* two checkouts of different users that both began with the full stock have
\* both answered 201, and their order items ask more of the product than that
C21_Witness ==
    \E r1, r2 \in Slots, p \in product :
        /\ Done(r1, "create_order") /\ req[r1].status = 201
        /\ Done(r2, "create_order") /\ req[r2].status = 201
        /\ req[r1].user_id # req[r2].user_id
        /\ Get(pre[r1].product, p.id).stock_quantity = MaxStock
        /\ Get(pre[r2].product, p.id).stock_quantity = MaxStock
        /\ Sold({oi \in orderitem : oi.order_id = req[r1].order_id}, p.id) >= 1
        /\ Sold({oi \in orderitem : oi.order_id = req[r2].order_id}, p.id) >= 1
        /\ Sold(orderitem, p.id) > MaxStock

\* the step is the insert of create_review in slot r
InsertsReview(r) ==
    /\ req[r].pc = "idle"
    /\ req'[r].op = "create_review" /\ req'[r].pc = "aggregate"

\* the step is the delete of delete_review in slot r
DeletesReview(r) ==
    /\ req[r].pc = "idle"
    /\ req'[r].op = "delete_review" /\ req'[r].pc = "aggregate"

\* C22: however create_review requests (and delete_review requests) overlap,
\* no review row is lost: every create_review that finds the product adds one
\* row under an id no row has, with its user, product and rating; a row leaves
\* the table only by a delete_review of it; and no other step, the writes of
\* the aggregate among them, changes the review table
C22_NoReviewLost ==
    /\ [](\A a, b \in review : a.id = b.id => a = b)
    /\ [][/\ \A r \in Slots :
              InsertsReview(r) =>
                  /\ ~HasRow(review, req'[r].review_id)
                  /\ review' = review \cup
                        {[id |-> req'[r].review_id, user_id |-> req'[r].user_id,
                          product_id |-> req'[r].product_id,
                          rating |-> req'[r].rating]}
          /\ \A rv \in review' \ review : \E r \in Slots : InsertsReview(r)
          /\ \A rv \in review \ review' :
                  \E r \in Slots : DeletesReview(r) /\ req'[r].review_id = rv.id]_vars

\* two create_review requests for a product without reviews have both answered
\* 201, the second begun after the insert of the first and before its write of
\* the aggregate; both rows are stored, and the product's review_count is 1:
\* the request that selected the reviews first wrote the aggregate last
C22_Witness ==
    \E r1, r2 \in Slots :
        /\ r1 # r2
        /\ Done(r1, "create_review") /\ req[r1].status = 201
        /\ Done(r2, "create_review") /\ req[r2].status = 201
        /\ req[r1].product_id = req[r2].product_id
        /\ StoredReviews(pre[r1], req[r1].product_id) = {}
        /\ {rv.id : rv \in StoredReviews(pre[r2], req[r2].product_id)}
              = {req[r1].review_id}
        /\ Get(pre[r2].product, req[r2].product_id).review_count = 0
        /\ req[r1].review_id # req[r2].review_id
        /\ HasRow(review, req[r1].review_id) /\ HasRow(review, req[r2].review_id)
        /\ Cardinality(StoredReviews(Snapshot, req[r1].product_id)) = 2
        /\ Get(product, req[r1].product_id).review_count = 1

\* no create_review or delete_review is running
ReviewsQuiet == \A r \in Slots : req[r].pc \in {"idle", "done"}

\* C23 as claimed: once the create_review and delete_review requests that
\* overlapped have all completed, every product's review_count is the number
\* of its reviews and its rating their mean
C23_AggregateSettles ==
    ReviewsQuiet => \A p \in product : AggregateAgrees(Snapshot, p.id)

----------------------------------------------------------------------------
(* The cart of an aborted checkout, and the stock over many requests *)

\* C24: after a checkout aborted with "Insufficient stock" the caller's cart is
\* what it was before the request, row for row and quantity for quantity: the
\* rows of the lines processed before the failing one and the rows whose
\* product is no row, which the loop had marked for deletion, are still stored
C24_CartKeptOnAbort ==
    \A r \in Slots :
        Aborted(r) =>
            /\ LinesOf(Snapshot, req[r].user_id) = LinesOf(pre[r], req[r].user_id)
            /\ cartitem = pre[r].cartitem

\* an aborted checkout of a cart of two lines, one of a product that is no row
\* any more and one that asks more than the stock, and the cart is as before
C24_Witness ==
    \E r \in Slots :
        LET lines == LinesOf(pre[r], req[r].user_id)
        IN /\ Aborted(r)
           /\ Cardinality(lines) = 2
           /\ \E ci \in lines : ~HasRow(pre[r].product, ci.product_id)
           /\ \E ci \in lines :
                 /\ HasRow(pre[r].product, ci.product_id)
                 /\ Get(pre[r].product, ci.product_id).stock_quantity < ci.quantity
           /\ LinesOf(Snapshot, req[r].user_id) = lines

\* C25: with one request at a time and no admin product write, every product
\* stays a row and its stock_quantity plus the quantities of all the order
\* items for it is the stock it began with, in every state: through cart
\* requests, checkouts (completed or aborted), reviews and status updates (a
\* cancelled order gives nothing back)
C25_StockConserved ==
    \A p \in ProductIds :
        /\ HasRow(product, p)
        /\ Get(product, p).stock_quantity + Sold(orderitem, p) = MaxStock

\* two orders hold the whole stock of a product between them, one of them
\* cancelled, and the product has a review
C25_Witness ==
    \E p \in ProductIds, o1, o2 \in order :
        /\ o1.id # o2.id /\ o1.status = "cancelled"
        /\ Sold({oi \in orderitem : oi.order_id = o1.id}, p) >= 1
        /\ Sold({oi \in orderitem : oi.order_id = o2.id}, p) >= 1
        /\ Get(product, p).stock_quantity = 0
        /\ Get(product, p).review_count >= 1

----------------------------------------------------------------------------
(* Overlapping requests of one user *)

\* C26 as claimed: when two add_to_cart requests of one user for one product,
\* begun on the same cart, have both answered 201 (and the stock allows the sum
\* of what the cart held and what they add), the cart holds one row for that
\* user and product, and its quantity is that sum
C26_AddsMerge ==
    \A r1, r2 \in Slots :
        LET u == req[r1].user_id
            p == req[r1].product_id
            had == Asked(RowsFor(pre[r1], u, p), p)
            sum == had + req[r1].quantity + req[r2].quantity
        IN (/\ r1 # r2
            /\ Done(r1, "add_to_cart") /\ req[r1].status = 201
            /\ Done(r2, "add_to_cart") /\ req[r2].status = 201
            /\ req[r2].user_id = u /\ req[r2].product_id = p
            /\ pre[r1].cartitem = pre[r2].cartitem
            /\ sum <= Get(pre[r1].product, p).stock_quantity) =>
               /\ Cardinality(RowsFor(Snapshot, u, p)) = 1
               /\ Asked(RowsFor(Snapshot, u, p), p) = sum

\* C27 as claimed: a checkout that commits turns into order items only cart
\* rows that are still rows of the cart, so that no cart line, once an order
\* holds it (and its row is deleted), is put into a second order
C27_LineOrderedOnce ==
    [][\A r \in Slots :
          Commits(r) => \A id \in req[r].lines : HasRow(cartitem, id)]_vars

====
